---- MODULE Spec2Model ----
(***************************************************************************)
(* Model of the Domain Registry Controller implemented by                   *)
(* src/component/DomainManagerDialog.vue.                                   *)
(*                                                                          *)
(* The component is single-threaded and event driven.  Every handler runs   *)
(* atomically up to its first `await`; the remote call then sits in         *)
(* `inflight` until its response arrives, and the continuation of the       *)
(* handler runs atomically when it does.  Responses of calls that overlap   *)
(* may arrive in any order.                                                 *)
(*                                                                          *)
(* Domain names are sequences of one-character strings so that trim() and   *)
(* the validation regex are computed character by character.  Indices are   *)
(* the 0-based indices of the source: entry i of the source is              *)
(* domains[i + 1] here.                                                     *)
(*                                                                          *)
(* The module also models the dashboard page src/pages/index.vue: its       *)
(* search (fetchData), its per-domain sync (handleSync) and the two         *)
(* computed properties that group the synced requests by type.  The page    *)
(* does not mount the dialog, so each specification moves one of the two    *)
(* and leaves the other as constructed: Spec the dialog, SyncSpec the       *)
(* page, ClassifySpec the page's computed properties.                       *)
(***************************************************************************)
EXTENDS Integers, Sequences, FiniteSets, Bags, TLC

\* ------------------------------------------------------------------ bounds
MaxId == 2         \* the remote service hands out the ids 1..MaxId
MaxInFlight == 2   \* remote calls that may be outstanding together
MaxSyncs == 2      \* sync requests that may be outstanding together
MaxRecords == 3    \* requests a sync result may list

\* ---------------------------------------------------------------- strings
NoIndex == -1      \* editingIndex.value === null

Letters ==
    {"a","b","c","d","e","f","g","h","i","j","k","l","m",
     "n","o","p","q","r","s","t","u","v","w","x","y","z",
     "A","B","C","D","E","F","G","H","I","J","K","L","M",
     "N","O","P","Q","R","S","T","U","V","W","X","Y","Z"}

Digits == {"0","1","2","3","4","5","6","7","8","9"}

WhiteSpace == {" ", "\t", "\n", "\r"}

LineTerminators == {"\n", "\r"}

RECURSIVE TrimStart(_)
TrimStart(s) ==
    IF s # <<>> /\ Head(s) \in WhiteSpace THEN TrimStart(Tail(s)) ELSE s

RECURSIVE TrimEnd(_)
TrimEnd(s) ==
    IF s # <<>> /\ s[Len(s)] \in WhiteSpace
    THEN TrimEnd(SubSeq(s, 1, Len(s) - 1))
    ELSE s

\* String.prototype.trim
Trim(s) == TrimEnd(TrimStart(s))

\* ([a-zA-Z0-9-]+\.)+ matches s[1..k] exactly
MatchesLabels(s, k) ==
    /\ k >= 2
    /\ s[k] = "."
    /\ s[1] # "."
    /\ \A i \in 1..k : s[i] \in Letters \cup Digits \cup {"-", "."}
    /\ \A i \in 1..(k - 1) : ~(s[i] = "." /\ s[i + 1] = ".")

\* [a-zA-Z]{2,} matches s[k+1..m] exactly
MatchesTld(s, k, m) ==
    /\ m >= k + 2
    /\ \A i \in (k + 1)..m : s[i] \in Letters

\* (\/.*)?$ matches s[m+1..Len(s)] exactly
MatchesPath(s, m) ==
    \/ m = Len(s)
    \/ /\ m < Len(s)
       /\ s[m + 1] = "/"
       /\ \A i \in (m + 2)..Len(s) : s[i] \notin LineTerminators

RegexTest(s) ==
    \E k \in 1..Len(s) : \E m \in 1..Len(s) :
        MatchesLabels(s, k) /\ MatchesTld(s, k, m) /\ MatchesPath(s, m)

\* isValidDomain with {1,} for the final label
isValidDomain_ShortTld(domain) ==
    LET s == Trim(domain) IN
    \E k \in 1..Len(s) : \E m \in 1..Len(s) :
        /\ MatchesLabels(s, k)
        /\ m >= k + 1
        /\ \A i \in (k + 1)..m : s[i] \in Letters
        /\ MatchesPath(s, m)

\* isValidDomain: /^([a-zA-Z0-9-]+\.)+[a-zA-Z]{2,}(\/.*)?$/.test(domain.trim())
isValidDomain(domain) == RegexTest(Trim(domain))

\* ----------------------------------------------------------------- inputs
aio == <<"a", ".", "i", "o">>
bio == <<"b", ".", "i", "o">>

\* names the remote service holds
ServerNames == {aio, bio}

\* what the operator may type into the draft input
Drafts ==
    { <<" ">>,                                \* blank
      <<" ", "a", ".", "i", "o", " ">>,       \* valid once trimmed
      bio,
      <<"a", ".", "i">> }                     \* final label too short

Ids == 1..MaxId

Entry(id, name) == [id |-> id, domain |-> name]

RECURSIVE ListsOfLen(_)
ListsOfLen(n) ==
    IF n = 0 THEN { <<>> }
    ELSE { Append(l, Entry(id, name)) :
             l \in ListsOfLen(n - 1), id \in Ids, name \in ServerNames }

\* the service lists its entries by id, and ids only grow
IdsAscend(l) == \A i \in 1..(Len(l) - 1) : l[i].id < l[i + 1].id

\* bodies the list endpoint may answer with
ServerLists ==
    UNION { { l \in ListsOfLen(n) : IdsAscend(l) } : n \in 0..MaxId }

\* ------------------------------------------------------------------ state
VARIABLES
    newDomain,     \* newDomain.value, the draft
    domains,       \* domains.value
    editingIndex,  \* editingIndex.value, NoIndex for null
    isLoading,     \* isLoading.value
    confirmBox,    \* <<>> or <<[index, id]>>: the open ElMessageBox.confirm
    inflight,      \* bag of remote calls awaiting their response
    last           \* the handler step taken last and what it showed

\* state of pages/index.vue (its domains ref is pageDomains here)
VARIABLES
    pageDomains,     \* domains.value, the domains the search found
    loading,         \* loading.value
    selectedDomain,  \* selectedDomain.value, NoDomain for null
    syncData,        \* syncData.value: <<>> for null, else << result.data >>
    syncLoading,     \* syncLoading.value
    syncInflight,    \* bag of sync requests awaiting their response
    syncedFrom,      \* the domain whose response syncData holds
    pageLast,        \* the page handler step taken last
    view             \* <<>> or << what the template last read from the
                     \*            computed properties >>

dialogVars == <<newDomain, domains, editingIndex, isLoading, confirmBox,
                inflight, last>>

pageVars == <<pageDomains, loading, selectedDomain, syncData, syncLoading,
              syncInflight, syncedFrom, pageLast, view>>

vars == <<newDomain, domains, editingIndex, isLoading, confirmBox,
          inflight, last, pageDomains, loading, selectedDomain, syncData,
          syncLoading, syncInflight, syncedFrom, pageLast, view>>

Call(kind, id, name, index) ==
    [kind |-> kind, id |-> id, domain |-> name, index |-> index]

ListCall == Call("list", 0, <<>>, NoIndex)

Issue(c) == inflight (+) SetToBag({c})

Settle(c) == inflight (-) SetToBag({c})

Pending(kind) == { c \in BagToSet(inflight) : c.kind = kind }

\* how many calls of a kind are outstanding
Outstanding(kind) ==
    BagCardinality([c \in Pending(kind) |-> CopiesIn(c, inflight)])

CanIssue == BagCardinality(inflight) < MaxInFlight

\* what a step leaves in last: its handler, the index it was given, the
\* cursor it found and the message or exception it ended with
Step(op, index, out) ==
    [op |-> op, index |-> index, cursor |-> editingIndex, out |-> out]

\* steps of the operator that call nothing and show nothing
Quiet == [op |-> "ui", index |-> NoIndex, cursor |-> NoIndex, out |-> ""]

\* ------------------------------------------------------------------- init
NoDomain == "(null)"   \* selectedDomain.value === null

\* steps of the page that show nothing
PageQuiet == [op |-> "ui", domain |-> NoDomain]

\* The page as constructed: the refs hold their initial values, nothing is
\* outstanding and the template has read no computed property yet.
PageInit ==
    /\ pageDomains = <<>>
    /\ loading = FALSE
    /\ selectedDomain = NoDomain
    /\ syncData = <<>>
    /\ syncLoading = FALSE
    /\ syncInflight = EmptyBag
    /\ syncedFrom = NoDomain
    /\ pageLast = PageQuiet
    /\ view = <<>>

\* State when the dialog is first shown: the refs hold their initial values
\* and the watcher on props.visible has called fetchDomains, which raised
\* isLoading and issued the list request.  (While props.visible is false the
\* dialog offers no control and nothing is outstanding.)
DialogInit ==
    /\ newDomain = <<>>
    /\ domains = <<>>
    /\ editingIndex = NoIndex
    /\ confirmBox = <<>>
    /\ isLoading = TRUE
    /\ inflight = SetToBag({ListCall})
    /\ last = [op |-> "ui", index |-> NoIndex, cursor |-> NoIndex, out |-> ""]

\* both components as constructed
Init == DialogInit /\ PageInit

\* The operator can reach the dialog's controls: no modal confirmation box
\* covers it.
Interactive == confirmBox = <<>>

\* ---------------------------------------------------------------- actions
\* The dialog is closed (handleConfirm, handleCancel or the dialog's own
\* close emit update:visible false and reset nothing) and shown again:
\* props.visible turns true and the watcher calls fetchDomains, which raises
\* isLoading and issues the list request.  Requests outstanding when the
\* dialog closes stay outstanding.
Reopen ==
    /\ Interactive
    /\ CanIssue
    /\ isLoading' = TRUE
    /\ inflight' = Issue(ListCall)
    /\ last' = Quiet
    /\ UNCHANGED <<newDomain, domains, editingIndex, confirmBox>>

\* fetchDomains, continuation after a response with status 200
FetchOk(c, list) ==
    /\ c \in Pending("list")
    /\ domains' = list
    /\ isLoading' = FALSE
    /\ inflight' = Settle(c)
    /\ last' = Step("fetchOk", NoIndex, "")
    /\ UNCHANGED <<newDomain, editingIndex, confirmBox>>

\* FetchFail with the list reset on the error path
FetchFail_Clears ==
    /\ ListCall \in Pending("list")
    /\ domains' = <<>>
    /\ isLoading' = FALSE
    /\ inflight' = Settle(ListCall)
    /\ last' = Step("fetchFail", NoIndex, "failed")
    /\ UNCHANGED <<newDomain, editingIndex, confirmBox>>

\* fetchDomains, continuation after another status or a rejected request:
\* the else branch and the catch branch both show a message and no more
FetchFail ==
    /\ ListCall \in Pending("list")
    /\ isLoading' = FALSE
    /\ inflight' = Settle(ListCall)
    /\ last' = Step("fetchFail", NoIndex, "failed")
    /\ UNCHANGED <<newDomain, domains, editingIndex, confirmBox>>

\* v-model on the draft input
TypeDraft(text) ==
    /\ Interactive
    /\ text # newDomain
    /\ newDomain' = text
    /\ last' = Quiet
    /\ UNCHANGED <<domains, editingIndex, isLoading, confirmBox,
                   inflight>>

\* handleEditDomain, behind the Edit button's :disabled
handleEditDomain(index) ==
    /\ Interactive
    /\ index \in 0..(Len(domains) - 1)
    /\ ~((editingIndex # NoIndex /\ editingIndex # index) \/ isLoading)
    /\ editingIndex' = index
    /\ newDomain' = domains[index + 1].domain
    /\ last' = Quiet
    /\ UNCHANGED <<domains, isLoading, confirmBox, inflight>>

\* IsDuplicate with the comparison lost
IsDuplicate_Skipped(list, name) == FALSE

\* domains.value.some(d => d.domain === domain)
IsDuplicate(list, name) == \E i \in 1..Len(list) : list[i].domain = name

\* an id is left for every create outstanding
CanCreate ==
    /\ CanIssue
    /\ \A i \in 1..Len(domains) :
           domains[i].id + Outstanding("create") < MaxId

\* handleAddOrUpdateDomain up to its await.  The button is disabled while
\* isLoading or the draft is blank, but @keyup.enter on the input calls the
\* handler without either condition.
handleAddOrUpdateDomain ==
    /\ Interactive
    /\ LET domain == Trim(newDomain) IN
       IF domain = <<>> THEN
           /\ last' = Step("submit", NoIndex, "Please enter a domain")
           /\ UNCHANGED <<isLoading, inflight>>
       ELSE IF ~isValidDomain(domain) THEN
           /\ last' = Step("submit", NoIndex, "Please enter a valid domain")
           /\ UNCHANGED <<isLoading, inflight>>
       ELSE IF editingIndex # NoIndex THEN
           IF editingIndex >= Len(domains) THEN
               \* domains.value[editingIndex.value] is undefined: reading .id throws
               /\ last' = Step("submit", NoIndex, "TypeError")
               /\ UNCHANGED <<isLoading, inflight>>
           ELSE
               /\ CanIssue
               /\ isLoading' = TRUE
               /\ inflight' = Issue(Call("update", domains[editingIndex + 1].id,
                                         domain, NoIndex))
               /\ last' = Step("submit", NoIndex, "")
       ELSE IF IsDuplicate(domains, domain) THEN
           /\ last' = Step("submit", NoIndex, "Domain already exists")
           /\ UNCHANGED <<isLoading, inflight>>
       ELSE
           /\ CanCreate
           /\ isLoading' = TRUE
           /\ inflight' = Issue(Call("create", 0, domain, NoIndex))
           /\ last' = Step("submit", NoIndex, "")
    /\ UNCHANGED <<newDomain, domains, editingIndex, confirmBox>>

\* CreateOk with the returned pair put in front (unshift for push)
CreateOk_Prepends(c, id) ==
    /\ c \in Pending("create")
    /\ \A i \in 1..Len(domains) : domains[i].id < id
    /\ domains' = << Entry(id, c.domain) >> \o domains
    /\ isLoading' = FALSE
    /\ newDomain' = <<>>
    /\ inflight' = Settle(c)
    /\ last' = Step("createOk", NoIndex, "Domain created successfully")
    /\ UNCHANGED <<editingIndex, confirmBox>>

\* createDomain, continuation after status 200: the pair the service
\* returned is pushed.  The service assigns an id above those it assigned
\* before.
CreateOk(c, id) ==
    /\ c \in Pending("create")
    /\ \A i \in 1..Len(domains) : domains[i].id < id
    /\ domains' = Append(domains, Entry(id, c.domain))
    /\ isLoading' = FALSE
    /\ newDomain' = <<>>
    /\ inflight' = Settle(c)
    /\ last' = Step("createOk", NoIndex, "Domain created successfully")
    /\ UNCHANGED <<editingIndex, confirmBox>>

\* createDomain, continuation after another status or a rejected request
CreateFail(c) ==
    /\ c \in Pending("create")
    /\ isLoading' = FALSE
    /\ inflight' = Settle(c)
    /\ last' = Step("createFail", NoIndex, "failed")
    /\ UNCHANGED <<newDomain, domains, editingIndex, confirmBox>>

\* domains.value[editingIndex.value] is an entry
CursorInRange == editingIndex # NoIndex /\ editingIndex < Len(domains)

\* domains.value[editingIndex.value].domain = domain
Renamed(list, index, name) == [list EXCEPT ![index + 1].domain = name]

\* updateDomain and the rest of handleAddOrUpdateDomain after status 200.
\* editingIndex is read again here; when it no longer names an entry the
\* assignment throws and the two resets after it do not run.
UpdateOk(c) ==
    /\ c \in Pending("update")
    /\ isLoading' = FALSE
    /\ inflight' = Settle(c)
    /\ IF CursorInRange THEN
           /\ domains' = Renamed(domains, editingIndex, c.domain)
           /\ editingIndex' = NoIndex
           /\ newDomain' = <<>>
           /\ last' = Step("updateOk", NoIndex, "Domain updated successfully")
       ELSE
           /\ last' = Step("updateOk", NoIndex, "TypeError")
           /\ UNCHANGED <<domains, editingIndex, newDomain>>
    /\ UNCHANGED <<confirmBox>>

\* updateDomain, continuation after another status or a rejected request
UpdateFail(c) ==
    /\ c \in Pending("update")
    /\ isLoading' = FALSE
    /\ inflight' = Settle(c)
    /\ last' = Step("updateFail", NoIndex, "failed")
    /\ UNCHANGED <<newDomain, domains, editingIndex, confirmBox>>

\* handleDeleteDomain up to ElMessageBox.confirm, behind the Delete
\* button's :disabled.  index and the entry's id are captured.
handleDeleteDomain(index) ==
    /\ Interactive
    /\ ~isLoading
    /\ index \in 0..(Len(domains) - 1)
    /\ confirmBox' = << [index |-> index, id |-> domains[index + 1].id] >>
    /\ last' = Quiet
    /\ UNCHANGED <<newDomain, domains, editingIndex, isLoading,
                   inflight>>

\* the call the .then branch issues for the captured entry
DeleteRequest(box) == Call("delete", box.id, <<>>, box.index)

\* ConfirmYes with the splice run before the response instead of after it
ConfirmYes_Optimistic ==
    /\ confirmBox # <<>>
    /\ CanIssue
    /\ confirmBox' = <<>>
    /\ isLoading' = TRUE
    /\ inflight' = Issue(DeleteRequest(confirmBox[1]))
    /\ domains' = SubSeq(domains, 1, confirmBox[1].index)
                   \o SubSeq(domains, confirmBox[1].index + 2, Len(domains))
    /\ last' = Step("confirmYes", NoIndex, "")
    /\ UNCHANGED <<newDomain, editingIndex>>

\* ElMessageBox.confirm resolves: deleteDomain raises isLoading and issues
\* the delete request for the captured id.
ConfirmYes ==
    /\ confirmBox # <<>>
    /\ CanIssue
    /\ confirmBox' = <<>>
    /\ isLoading' = TRUE
    /\ inflight' = Issue(DeleteRequest(confirmBox[1]))
    /\ last' = Step("confirmYes", NoIndex, "")
    /\ UNCHANGED <<newDomain, domains, editingIndex>>

\* ConfirmNo with the request issued from the .catch branch as well
ConfirmNo_Sends ==
    /\ confirmBox # <<>>
    /\ CanIssue
    /\ confirmBox' = <<>>
    /\ isLoading' = TRUE
    /\ inflight' = Issue(DeleteRequest(confirmBox[1]))
    /\ last' = Step("confirmNo", NoIndex, "")
    /\ UNCHANGED <<newDomain, domains, editingIndex>>

\* ElMessageBox.confirm rejects (Cancel, close, Escape): the .catch is empty
ConfirmNo ==
    /\ confirmBox # <<>>
    /\ confirmBox' = <<>>
    /\ last' = Step("confirmNo", NoIndex, "")
    /\ UNCHANGED <<newDomain, domains, editingIndex, isLoading,
                   inflight>>

\* domains.value.splice(index, 1)
Splice(list, index) ==
    IF index < Len(list)
    THEN SubSeq(list, 1, index) \o SubSeq(list, index + 2, Len(list))
    ELSE list

\* editingIndex after the if / else if that follows the splice
CursorAfterDelete(cursor, index) ==
    IF cursor = index THEN NoIndex
    ELSE IF cursor # NoIndex /\ cursor > index THEN cursor - 1
    ELSE cursor

\* DraftAfterDelete with the draft reset left out
DraftAfterDelete_Keeps(draft, cursor, index) == draft

\* newDomain after the if that follows the splice
DraftAfterDelete(draft, cursor, index) ==
    IF cursor = index THEN <<>> ELSE draft

\* deleteDomain and the rest of the .then branch after status 200
DeleteOk(c) ==
    /\ c \in Pending("delete")
    /\ isLoading' = FALSE
    /\ inflight' = Settle(c)
    /\ domains' = Splice(domains, c.index)
    /\ editingIndex' = CursorAfterDelete(editingIndex, c.index)
    /\ newDomain' = DraftAfterDelete(newDomain, editingIndex, c.index)
    /\ last' = Step("deleteOk", c.index, "Domain deleted successfully")
    /\ UNCHANGED <<confirmBox>>

\* DeleteFail with the local removal run whatever the outcome
DeleteFail_Removes(c) ==
    /\ c \in Pending("delete")
    /\ isLoading' = FALSE
    /\ inflight' = Settle(c)
    /\ domains' = Splice(domains, c.index)
    /\ editingIndex' = CursorAfterDelete(editingIndex, c.index)
    /\ newDomain' = DraftAfterDelete(newDomain, editingIndex, c.index)
    /\ last' = Step("deleteFail", c.index, "failed")
    /\ UNCHANGED <<confirmBox>>

\* deleteDomain, continuation after another status or a rejected request
DeleteFail(c) ==
    /\ c \in Pending("delete")
    /\ isLoading' = FALSE
    /\ inflight' = Settle(c)
    /\ last' = Step("deleteFail", c.index, "failed")
    /\ UNCHANGED <<newDomain, domains, editingIndex, confirmBox>>

\* the steps of the dialog; the page is not touched by any of them
Next ==
    \/ Reopen /\ UNCHANGED pageVars
    \/ \E c \in Pending("list") : \E list \in ServerLists :
           FetchOk(c, list) /\ UNCHANGED pageVars
    \/ FetchFail /\ UNCHANGED pageVars
    \/ \E text \in Drafts : TypeDraft(text) /\ UNCHANGED pageVars
    \/ \E index \in 0..(MaxId - 1) :
           handleEditDomain(index) /\ UNCHANGED pageVars
    \/ handleAddOrUpdateDomain /\ UNCHANGED pageVars
    \/ \E c \in Pending("create") : \E id \in Ids :
           CreateOk(c, id) /\ UNCHANGED pageVars
    \/ \E c \in Pending("create") : CreateFail(c) /\ UNCHANGED pageVars
    \/ \E c \in Pending("update") : UpdateOk(c) /\ UNCHANGED pageVars
    \/ \E c \in Pending("update") : UpdateFail(c) /\ UNCHANGED pageVars
    \/ \E index \in 0..(MaxId - 1) :
           handleDeleteDomain(index) /\ UNCHANGED pageVars
    \/ ConfirmYes /\ UNCHANGED pageVars
    \/ ConfirmNo /\ UNCHANGED pageVars
    \/ \E c \in Pending("delete") : DeleteOk(c) /\ UNCHANGED pageVars
    \/ \E c \in Pending("delete") : DeleteFail(c) /\ UNCHANGED pageVars

Spec == Init /\ [][Next]_vars

\* ------------------------------------------------- page: src/pages/index.vue
\* The page is event driven like the dialog: a handler runs atomically up to
\* its first `await`, its request is outstanding until the response arrives,
\* and the rest of the handler runs atomically then.

\* domains the search may find
SiteA == "https://a.io"
SiteB == "https://b.io"

\* bodies the search endpoint may answer with (result.data.domains)
SiteLists == { <<>>, << SiteA >>, << SiteA, SiteB >> }

\* type values of scanned requests, character by character
IMAGE == <<"I", "M", "A", "G", "E">>
JS == <<"J", "S">>
WEIRD == <<"W", "E", "I", "R", "D">>
Seven == <<"7">>
Ten == <<"1", "0">>
EmptyType == <<>>

\* the literal "UNKNOWN"
UNKNOWN == <<"U", "N", "K", "N", "O", "W", "N">>

TypeValues == {IMAGE, JS, WEIRD, Seven, Ten, EmptyType}

Urls == {"u1", "u2"}

\* one element of result.data.requests; the scan found u1 to resolve
Typed(type, url) == [type |-> type, url |-> url, isValid |-> url = "u1"]

\* an element that has no type property
Untyped(url) == [url |-> url, isValid |-> url = "u1"]

Requests ==
    { Typed(type, url) : type \in TypeValues, url \in Urls }
        \cup { Untyped(url) : url \in Urls }

\* result.data of the sync endpoint
Body(requests, invalidLinks) ==
    [requests |-> requests, invalidLinks |-> invalidLinks]

\* bodies the sync endpoint may answer with while syncs overlap
Answers ==
    { Body(<<>>, <<>>),
      Body(<< Typed(IMAGE, "u1"), Untyped("u2") >>, << "u2" >>) }

\* a sync request: the domain it was issued for, and the syncData that was
\* held when its Sync button was clicked
SyncCall(domain, held) == [domain |-> domain, held |-> held]

PageStep(op, domain) == [op |-> op, domain |-> domain]

\* fetchData up to its await, behind the Search button's :disabled and past
\* the two checks of url.value (which return with a message only)
fetchData ==
    /\ ~loading
    /\ loading' = TRUE
    /\ pageLast' = PageStep("fetchData", NoDomain)
    /\ UNCHANGED <<pageDomains, selectedDomain, syncData, syncLoading,
                   syncInflight, syncedFrom, view>>

\* fetchData, continuation after an ok response of the expected format
FetchDataOk(list) ==
    /\ loading
    /\ pageDomains' = list
    /\ loading' = FALSE
    /\ pageLast' = PageStep("fetchDataOk", NoDomain)
    /\ UNCHANGED <<selectedDomain, syncData, syncLoading, syncInflight,
                   syncedFrom, view>>

\* fetchData, continuation through its catch
FetchDataFail ==
    /\ loading
    /\ loading' = FALSE
    /\ pageLast' = PageStep("fetchDataFail", NoDomain)
    /\ UNCHANGED <<pageDomains, selectedDomain, syncData, syncLoading,
                   syncInflight, syncedFrom, view>>

\* the Sync button of a domain is rendered and enabled
CanSync(domain) ==
    /\ ~loading
    /\ \E i \in 1..Len(pageDomains) : pageDomains[i] = domain
    /\ ~(syncLoading /\ selectedDomain = domain)

\* handleSync up to its await
handleSync(domain) ==
    /\ CanSync(domain)
    /\ BagCardinality(syncInflight) < MaxSyncs
    /\ selectedDomain' = domain
    /\ syncLoading' = TRUE
    /\ syncData' = <<>>
    /\ syncedFrom' = NoDomain
    /\ syncInflight' = syncInflight (+) SetToBag({SyncCall(domain, syncData)})
    /\ pageLast' = PageStep("handleSync", domain)
    /\ UNCHANGED <<pageDomains, loading, view>>

\* handleSync, continuation after an ok response of the expected format
SyncOk(c, body) ==
    /\ c \in BagToSet(syncInflight)
    /\ syncData' = << body >>
    /\ syncedFrom' = c.domain
    /\ syncLoading' = FALSE
    /\ syncInflight' = syncInflight (-) SetToBag({c})
    /\ pageLast' = PageStep("syncOk", c.domain)
    /\ UNCHANGED <<pageDomains, loading, selectedDomain, view>>

\* how a sync fails: the fetch rejects, response.ok is false, or the body
\* has not the expected format.  All three end in the catch.
SyncFailures == {"transport", "status", "format"}

\* handleSync, continuation through its catch
SyncFail(c, out) ==
    /\ c \in BagToSet(syncInflight)
    /\ syncLoading' = FALSE
    /\ syncInflight' = syncInflight (-) SetToBag({c})
    /\ pageLast' = PageStep("syncFail", c.domain)
    /\ UNCHANGED <<pageDomains, loading, selectedDomain, syncData,
                   syncedFrom, view>>

\* the steps of the page; the dialog is not touched by any of them
SyncNext ==
    \/ fetchData /\ UNCHANGED dialogVars
    \/ \E list \in SiteLists : FetchDataOk(list) /\ UNCHANGED dialogVars
    \/ FetchDataFail /\ UNCHANGED dialogVars
    \/ \E domain \in {SiteA, SiteB} :
           handleSync(domain) /\ UNCHANGED dialogVars
    \/ \E c \in BagToSet(syncInflight) : \E body \in Answers :
           SyncOk(c, body) /\ UNCHANGED dialogVars
    \/ \E c \in BagToSet(syncInflight) : \E out \in SyncFailures :
           SyncFail(c, out) /\ UNCHANGED dialogVars

SyncSpec == Init /\ [][SyncNext]_vars

\* ------------------------------------------ page: the computed properties
\* A JavaScript object is the sequence of its own properties, [key, value],
\* in the order they were created.  None of the type values above names a
\* member of Object.prototype, so acc[type] finds own properties only.
EmptyObject == <<>>

Has(obj, key) == \E i \in 1..Len(obj) : obj[i].key = key

\* obj[key] for a key the object has
Get(obj, key) == obj[CHOOSE i \in 1..Len(obj) : obj[i].key = key].value

\* GroupKey with every value outside the known kinds put under "UNKNOWN"
GroupKey_Coerced(request) ==
    IF "type" \in DOMAIN request /\ request.type \in {IMAGE, JS}
    THEN request.type
    ELSE UNKNOWN

\* request.type || "UNKNOWN": undefined and the empty string are falsy
GroupKey(request) ==
    IF "type" \in DOMAIN request /\ request.type # <<>>
    THEN request.type
    ELSE UNKNOWN

\* Reducer with unshift for push
Reducer_Unshift(acc, request) ==
    LET type == GroupKey(request)
        made == IF Has(acc, type) THEN acc
                ELSE Append(acc, [key |-> type, value |-> <<>>])
    IN [i \in 1..Len(made) |->
          IF made[i].key = type
          THEN [key |-> type, value |-> << request >> \o made[i].value]
          ELSE made[i]]

\* the callback of reduce: if (!acc[type]) acc[type] = [];
\* acc[type].push(request)
Reducer(acc, request) ==
    LET type == GroupKey(request)
        made == IF Has(acc, type) THEN acc
                ELSE Append(acc, [key |-> type, value |-> <<>>])
    IN [i \in 1..Len(made) |->
          IF made[i].key = type
          THEN [key |-> type, value |-> Append(made[i].value, request)]
          ELSE made[i]]

\* requests.reduce(callback, acc)
RECURSIVE Reduce(_, _)
Reduce(acc, requests) ==
    IF requests = <<>> THEN acc
    ELSE Reduce(Reducer(acc, Head(requests)), Tail(requests))

\* the computed property groupedRequests (an array is truthy, so the second
\* operand of the guard is false once syncData holds a result)
groupedRequests ==
    IF syncData = <<>> THEN EmptyObject
    ELSE Reduce(EmptyObject, syncData[1].requests)

DigitChars == <<"0", "1", "2", "3", "4", "5", "6", "7", "8", "9">>

DigitValue(ch) == (CHOOSE i \in 1..10 : DigitChars[i] = ch) - 1

RECURSIVE IndexValue(_)
IndexValue(key) ==
    IF key = <<>> THEN 0
    ELSE 10 * IndexValue(SubSeq(key, 1, Len(key) - 1))
           + DigitValue(key[Len(key)])

\* the key is an array index: the canonical numeral of an integer below
\* 2^32 - 1, which every numeral of up to nine digits is
IsArrayIndex(key) ==
    /\ key # <<>>
    /\ Len(key) <= 9
    /\ \A i \in 1..Len(key) : key[i] \in Digits
    /\ (Len(key) > 1 => key[1] # "0")

RECURSIVE Ascending(_)
Ascending(keys) ==
    IF keys = {} THEN <<>>
    ELSE LET least == CHOOSE k \in keys :
                        \A j \in keys : IndexValue(k) <= IndexValue(j)
         IN << least >> \o Ascending(keys \ {least})

IsOtherKey(key) == ~IsArrayIndex(key)

\* Object.keys(obj): the array-index keys in ascending numeric order, then
\* the other string keys in the order they were created
ObjectKeys(obj) ==
    LET created == [i \in 1..Len(obj) |-> obj[i].key]
    IN Ascending({ created[i] : i \in { j \in 1..Len(obj) :
                                          IsArrayIndex(created[j]) } })
         \o SelectSeq(created, IsOtherKey)

\* the computed property requestTypes
requestTypes == ObjectKeys(groupedRequests)

\* The template reads the computed properties: v-for="type in requestTypes"
\* and :data="groupedRequests[type]", in the v-else of v-if="syncLoading".
Render ==
    /\ ~syncLoading
    /\ view' = << [groups |-> groupedRequests, types |-> requestTypes] >>
    /\ UNCHANGED <<pageDomains, loading, selectedDomain, syncData,
                   syncLoading, syncInflight, syncedFrom, pageLast>>

RECURSIVE SeqsOfLen(_)
SeqsOfLen(n) ==
    IF n = 0 THEN { <<>> }
    ELSE { Append(l, request) : l \in SeqsOfLen(n - 1), request \in Requests }

\* what result.data.requests may be, up to max of them
RequestSeqs(max) == UNION { SeqsOfLen(n) : n \in 0..max }

\* The page when a sync of SiteA has ended and nothing is outstanding: it
\* failed and syncData is null, or it succeeded and syncData is its result.
ClassifyInit ==
    /\ DialogInit
    /\ pageDomains = << SiteA >>
    /\ loading = FALSE
    /\ selectedDomain = SiteA
    /\ syncLoading = FALSE
    /\ syncInflight = EmptyBag
    /\ view = <<>>
    /\ \/ /\ syncData = <<>>
          /\ syncedFrom = NoDomain
          /\ pageLast = PageStep("syncFail", SiteA)
       \/ /\ \E requests \in RequestSeqs(MaxRecords) :
                 syncData = << Body(requests, <<>>) >>
          /\ syncedFrom = SiteA
          /\ pageLast = PageStep("syncOk", SiteA)

ClassifyNext == Render /\ UNCHANGED dialogVars

ClassifySpec == ClassifyInit /\ [][ClassifyNext]_vars

\* ----------------------------------------------------------------- claims
\* the list without the entry at 0-based index
RemoveAt(list, index) ==
    [j \in 1..(Len(list) - 1) |-> IF j <= index THEN list[j] ELSE list[j + 1]]

\* the remote calls a step adds to those outstanding
Issued(kind) ==
    { c \in BagToSet(inflight') :
        c.kind = kind /\ CopiesIn(c, inflight') > CopiesIn(c, inflight) }

\* the domain-syntax rule in words: the part before the first "/" is
\* dot-separated labels, each non-empty, the last of two or more letters and
\* the others of letters, digits and hyphens
FirstSlash(s) ==
    IF \E i \in 1..Len(s) : s[i] = "/"
    THEN CHOOSE i \in 1..Len(s) :
             s[i] = "/" /\ \A j \in 1..(i - 1) : s[j] # "/"
    ELSE Len(s) + 1

HostPart(s) == SubSeq(s, 1, FirstSlash(s) - 1)

RECURSIVE SplitDots(_, _)
SplitDots(s, label) ==
    IF s = <<>> THEN << label >>
    ELSE IF Head(s) = "." THEN << label >> \o SplitDots(Tail(s), <<>>)
    ELSE SplitDots(Tail(s), Append(label, Head(s)))

SyntaxOk(s) ==
    LET labels == SplitDots(HostPart(s), <<>>)
        n == Len(labels)
    IN /\ n >= 2
       /\ Len(labels[n]) >= 2
       /\ \A i \in 1..Len(labels[n]) : labels[n][i] \in Letters
       /\ \A k \in 1..(n - 1) :
            /\ labels[k] # <<>>
            /\ \A i \in 1..Len(labels[k]) :
                 labels[k][i] \in Letters \cup Digits \cup {"-"}

\* C1: whenever editingIndex is set it is an index of domains:
\* 0 <= editingIndex < length(domains), in every reachable state.
C1_CursorValid ==
    editingIndex # NoIndex => (0 <= editingIndex /\ editingIndex < Len(domains))

\* C2: a delete that succeeds while editingIndex > index removes the entry at
\* index, keeps the others in order and lowers editingIndex by one, which then
\* names the entry (same id) it named before; while editingIndex < index the
\* cursor is left as it was.
C2_RemoveShiftsCursor ==
    [][ (last'.op = "deleteOk" /\ editingIndex # NoIndex) =>
          /\ editingIndex > last'.index =>
               /\ last'.index < Len(domains)
               /\ domains' = RemoveAt(domains, last'.index)
               /\ editingIndex' = editingIndex - 1
               /\ editingIndex < Len(domains)
               /\ domains'[editingIndex' + 1].id = domains[editingIndex + 1].id
          /\ editingIndex < last'.index => editingIndex' = editingIndex ]_vars

\* C3: a delete that succeeds while editingIndex = index leaves editingIndex
\* unset and the draft empty.
C3_RemoveEditedClears ==
    (last.op = "deleteOk" /\ last.cursor = last.index) =>
        (editingIndex = NoIndex /\ newDomain = <<>>)

C3_Witness ==
    /\ last.op = "deleteOk"
    /\ last.cursor = last.index
    /\ editingIndex = NoIndex
    /\ domains # <<>>

\* C4: a delete request is issued only by the step in which the open
\* confirmation for that entry is answered yes; an answer of no issues no
\* request and leaves domains, editingIndex and the draft as they were.
C4_DeleteNeedsYes ==
    [][ /\ \A c \in Issued("delete") :
              /\ last'.op = "confirmYes"
              /\ confirmBox # <<>>
              /\ c.id = confirmBox[1].id
        /\ last'.op = "confirmNo" =>
              /\ inflight' = inflight
              /\ domains' = domains
              /\ editingIndex' = editingIndex
              /\ newDomain' = newDomain ]_vars

C4_Witness ==
    /\ last.op = "confirmNo"
    /\ editingIndex # NoIndex
    /\ newDomain # <<>>
    /\ inflight = EmptyBag

\* C5: the step in which an update, create or delete request fails, and the
\* step that issued it, leave domains and editingIndex as they were; for a
\* failed delete neither the removal nor the cursor adjustment runs.
C5_RemoteFailureKeepsState ==
    [][ last'.op \in {"updateFail", "createFail", "deleteFail",
                      "submit", "confirmYes"} =>
          (domains' = domains /\ editingIndex' = editingIndex) ]_vars

C5_Witness ==
    /\ last.op = "deleteFail"
    /\ last.cursor # NoIndex
    /\ last.cursor > last.index
    /\ editingIndex = last.cursor
    /\ editingIndex < Len(domains)

\* C6: when an update request succeeds, the entry the cursor named when the
\* request was issued (the entry whose id was sent) carries the trimmed draft
\* that was submitted, every other entry, every id, the order and the length
\* are as before the step, and editingIndex is unset.
C6_UpdateRenamesAtCursor ==
    [][ last'.op = "updateOk" =>
          \E c \in Pending("update") :
              /\ inflight' = inflight (-) SetToBag({c})
              /\ editingIndex' = NoIndex
              /\ Len(domains') = Len(domains)
              /\ \E i \in 1..Len(domains) : domains[i].id = c.id
              /\ \A i \in 1..Len(domains) :
                     /\ domains'[i].id = domains[i].id
                     /\ domains'[i].domain =
                          IF domains[i].id = c.id THEN c.domain
                          ELSE domains[i].domain ]_vars

\* C7: a submit with editingIndex unset and a valid draft that, trimmed,
\* equals the name of an entry shows "Domain already exists", issues no
\* request and changes neither domains nor editingIndex.
C7_DuplicateRejected ==
    [][ ( /\ last'.op = "submit"
          /\ editingIndex = NoIndex
          /\ SyntaxOk(Trim(newDomain))
          /\ \E i \in 1..Len(domains) : domains[i].domain = Trim(newDomain) ) =>
          /\ last'.out = "Domain already exists"
          /\ inflight' = inflight
          /\ domains' = domains
          /\ editingIndex' = editingIndex ]_vars

C7_Witness ==
    /\ last.op = "submit"
    /\ last.out = "Domain already exists"
    /\ Len(domains) = 2
    /\ domains[2].domain = Trim(newDomain)
    /\ newDomain # Trim(newDomain)

\* C8: a submit whose draft, trimmed, is empty or breaks the domain-syntax
\* rule shows a validation message, issues no request and changes neither
\* domains nor editingIndex, with editingIndex set or unset.
C8_InvalidNeverSent ==
    [][ ( /\ last'.op = "submit"
          /\ (Trim(newDomain) = <<>> \/ ~SyntaxOk(Trim(newDomain))) ) =>
          /\ last'.out \in {"Please enter a domain",
                            "Please enter a valid domain"}
          /\ inflight' = inflight
          /\ domains' = domains
          /\ editingIndex' = editingIndex ]_vars

C8_Witness ==
    /\ last.op = "submit"
    /\ last.out = "Please enter a valid domain"
    /\ last.cursor # NoIndex
    /\ editingIndex = last.cursor

\* C9: after a list request succeeds, domains is the list the service
\* answered with and editingIndex is unset, whatever it was before.
C9_LoadReplacesAndClears ==
    last.op = "fetchOk" => (domains \in ServerLists /\ editingIndex = NoIndex)

\* C10: the step in which a list request fails leaves domains as it was.
C10_LoadFailureKeepsList ==
    [][ last'.op = "fetchFail" => domains' = domains ]_vars

C10_Witness ==
    /\ last.op = "fetchFail"
    /\ Len(domains) = 2

\* C11: when a create request succeeds, domains is the list before the step
\* with one entry more at its end: the pair the service returned, whose name
\* is that of the settled request and whose id no entry carried; the entries
\* present before keep their position and content and editingIndex is as it
\* was.
C11_CreateAppends ==
    [][ last'.op = "createOk" =>
          \E c \in Pending("create") :
              /\ inflight' = inflight (-) SetToBag({c})
              /\ Len(domains') = Len(domains) + 1
              /\ SubSeq(domains', 1, Len(domains)) = domains
              /\ domains'[Len(domains')].domain = c.domain
              /\ \A i \in 1..Len(domains) :
                     domains[i].id # domains'[Len(domains')].id
              /\ editingIndex' = editingIndex ]_vars

C11_Witness ==
    /\ last.op = "createOk"
    /\ Len(domains) = 2
    /\ editingIndex = 0
    /\ last.cursor = 0

\* the request kind a success step settles
KindOf(op) ==
    CASE op = "createOk" -> "create"
      [] op = "updateOk" -> "update"
      [] op = "deleteOk" -> "delete"
      [] OTHER -> "none"

\* C12: domains and editingIndex are written only after success was seen.  A
\* step that changes either of them is the success continuation of a create,
\* update or delete request that was outstanding and is settled by that very
\* step, or it is one of the two steps outside the three operations: a list
\* response that succeeded, or Edit (which moves the cursor only).  So the
\* steps that issue a request, the steps in which one fails and the steps
\* around the confirmation change neither: nothing is applied early and
\* nothing is there to roll back.
C12_ApplyAfterSuccess ==
    [][ (domains' # domains \/ editingIndex' # editingIndex) =>
          \/ last'.op = "fetchOk"
          \/ /\ last'.op = "ui"
             /\ domains' = domains
             /\ inflight' = inflight
          \/ /\ last'.op \in {"createOk", "updateOk", "deleteOk"}
             /\ last'.out \in {"Domain created successfully",
                               "Domain updated successfully",
                               "Domain deleted successfully"}
             /\ \E c \in Pending(KindOf(last'.op)) :
                    inflight' = inflight (-) SetToBag({c}) ]_vars

C12_Witness ==
    /\ last.op = "updateOk"
    /\ last.out = "Domain updated successfully"
    /\ last.cursor = 1
    /\ Len(domains) = 2
    /\ domains[2].domain = bio
    /\ inflight # EmptyBag

\* C13: whenever syncData is not null, selectedDomain is the domain whose
\* request produced it, under every interleaving of syncs.
C13_SyncDataOfSelected ==
    syncData # <<>> => selectedDomain = syncedFrom

\* C14: when a sync fails (rejected fetch, response not ok, or body of the
\* wrong format), syncData (the requests that are grouped and the invalid
\* links) is what it was when that sync was triggered.
C14_FailedSyncKeepsData ==
    [][ pageLast'.op = "syncFail" =>
          \E c \in BagToSet(syncInflight) :
              /\ syncInflight' = syncInflight (-) SetToBag({c})
              /\ syncData' = c.held ]_vars

\* the requests of the result syncData holds
Synced == IF syncData = <<>> THEN <<>> ELSE syncData[1].requests

\* a record carries a type when it has the property and it is not empty
CarriesType(request) == "type" \in DOMAIN request /\ request.type # <<>>

\* the key a record is to be grouped under
KeyOf(request) == IF CarriesType(request) THEN request.type ELSE UNKNOWN

\* the keys of the records in order of first occurrence
RECURSIVE FirstSeen(_)
FirstSeen(requests) ==
    IF requests = <<>> THEN <<>>
    ELSE LET front == SubSeq(requests, 1, Len(requests) - 1)
             key == KeyOf(requests[Len(requests)])
         IN IF \E i \in 1..Len(front) : KeyOf(front[i]) = key
            THEN FirstSeen(front)
            ELSE Append(FirstSeen(front), key)

\* the records of one key, in input order
RECURSIVE OfKey(_, _)
OfKey(requests, key) ==
    IF requests = <<>> THEN <<>>
    ELSE IF KeyOf(Head(requests)) = key
         THEN << Head(requests) >> \o OfKey(Tail(requests), key)
         ELSE OfKey(Tail(requests), key)

\* C15: the types the template iterates over are the types present, each
\* once, in order of first occurrence in the input (not sorted), and each
\* group lists its records in input order.
C15_FirstSeenOrder ==
    view # <<>> =>
        /\ view[1].types = FirstSeen(Synced)
        /\ \A i \in 1..Len(view[1].types) :
               /\ Has(view[1].groups, view[1].types[i])
               /\ Get(view[1].groups, view[1].types[i])
                    = OfKey(Synced, view[1].types[i])

\* the request is listed in the group
Lists(group, request) == \E j \in 1..Len(group) : group[j] = request

RECURSIVE FlattenFrom(_, _)
FlattenFrom(groups, types) ==
    IF types = <<>> THEN <<>>
    ELSE Get(groups, Head(types)) \o FlattenFrom(groups, Tail(types))

Flatten(v) == FlattenFrom(v.groups, v.types)

\* C17: grouping is idempotent.  The records of a view, flattened group by
\* group in the order of its types and grouped again, give the same types in
\* the same order and the same group for every type.
C17_ClassifyIdempotent ==
    view # <<>> =>
        LET again == Reduce(EmptyObject, Flatten(view[1])) IN
        /\ ObjectKeys(again) = view[1].types
        /\ Len(again) = Len(view[1].groups)
        /\ \A i \in 1..Len(view[1].types) :
               Get(again, view[1].types[i])
                   = Get(view[1].groups, view[1].types[i])

C17_Witness ==
    /\ view # <<>>
    /\ Synced = << Typed(JS, "u1"), Typed(Seven, "u2"), Typed(JS, "u2") >>
    /\ Flatten(view[1]) # Synced

\* the steps in which a load, a submit or a remove ends in failure
FailureSteps == {"fetchFail", "createFail", "updateFail", "deleteFail"}

\* a submit of the draft as it stands would send a request
SubmitAccepted == ENABLED (handleAddOrUpdateDomain /\ inflight' # inflight)

\* C18: the dialog stays usable after a failure.  In the state a failed
\* load, submit or remove leaves, isLoading is false, and once no
\* confirmation box is open the dialog can be loaded again, Delete is
\* accepted on every row, Edit is accepted on some row of a list that has
\* rows, and a submit of a valid draft (not a duplicate when it is to be
\* created) sends its request.
C18_UsableAfterFailure ==
    last.op \in FailureSteps =>
        /\ isLoading = FALSE
        /\ Interactive =>
             /\ ENABLED Reopen
             /\ \A index \in 0..(Len(domains) - 1) :
                    ENABLED handleDeleteDomain(index)
             /\ domains # <<>> =>
                    \E index \in 0..(Len(domains) - 1) :
                        ENABLED handleEditDomain(index)
             /\ ( /\ isValidDomain(newDomain)
                  /\ editingIndex = NoIndex =>
                         ~IsDuplicate(domains, Trim(newDomain)) /\ CanCreate )
                    => SubmitAccepted

\* the list without the entries of an id
RECURSIVE WithoutId(_, _)
WithoutId(list, id) ==
    IF list = <<>> THEN <<>>
    ELSE IF Head(list).id = id THEN WithoutId(Tail(list), id)
         ELSE << Head(list) >> \o WithoutId(Tail(list), id)

\* C19: when a delete request succeeds, the entry that leaves domains is the
\* entry whose id the request carried: domains afterwards is domains before
\* the step without that entry, whatever happened to domains since Delete
\* was clicked.
C19_DeleteRemovesSentId ==
    [][ last'.op = "deleteOk" =>
          \E c \in Pending("delete") :
              /\ inflight' = inflight (-) SetToBag({c})
              /\ domains' = WithoutId(domains, c.id) ]_vars

\* C20: when an update request succeeds, editingIndex is still set and in
\* range, so that the completion runs to its end, and the one entry that
\* changes is the entry whose id the request carried, which takes the name
\* that was sent.
C20_UpdateRenamesSentId ==
    [][ last'.op = "updateOk" =>
          /\ editingIndex # NoIndex
          /\ editingIndex < Len(domains)
          /\ last'.out = "Domain updated successfully"
          /\ \E c \in Pending("update") :
                 /\ inflight' = inflight (-) SetToBag({c})
                 /\ domains[editingIndex + 1].id = c.id
                 /\ domains' = [domains EXCEPT
                                  ![editingIndex + 1].domain = c.domain] ]_vars

\* C21: isLoading is true in every state in which a list, create, update or
\* delete request is outstanding, also when two requests overlap and one of
\* them has been answered while the other has not.
C21_LoadingWhileOutstanding ==
    BagCardinality(inflight) > 0 => isLoading = TRUE

\* no two entries of the list have the same name
NamesDistinct(list) ==
    \A i \in 1..Len(list) : \A j \in 1..Len(list) :
        i # j => list[i].domain # list[j].domain

\* C22: names stay unique in domains.  When the names of domains are
\* pairwise distinct, they still are after a create that succeeded, an
\* update that succeeded and a delete that succeeded.
C22_NamesStayDistinct ==
    [][ ( /\ NamesDistinct(domains)
          /\ last'.op \in {"createOk", "updateOk", "deleteOk"} )
        => NamesDistinct(domains') ]_vars

====
